---- MODULE Spec2Model ----
(***************************************************************************)
(* Document clustering service: the /cluster endpoint (app.py), the upload *)
(* text extraction (file_handler.py) and the clustering pipeline           *)
(* (maincode.py).                                                          *)
(*                                                                         *)
(* A text is a sequence of one-character strings.  The embedding model and *)
(* scikit-learn's KMeans are external: an encode call either returns or    *)
(* raises, a fit_predict call either raises or returns one label in        *)
(* 0..k-1 per row.                                                         *)
(***************************************************************************)
EXTENDS Integers, Sequences, FiniteSets, TLC

(***************************************************************************)
(* Characters                                                              *)
(***************************************************************************)
LowerAlpha == <<"a","b","c","d","e","f","g","h","i","j","k","l","m",
                "n","o","p","q","r","s","t","u","v","w","x","y","z">>
UpperAlpha == <<"A","B","C","D","E","F","G","H","I","J","K","L","M",
                "N","O","P","Q","R","S","T","U","V","W","X","Y","Z">>
Digits == <<"0","1","2","3","4","5","6","7","8","9">>

Range(s) == { s[i] : i \in DOMAIN s }

\* Python's \s and str.strip() whitespace (the ASCII part)
Whitespace == {" ", "\t", "\n", "\r"}

IsSpace(c) == c \in Whitespace

AlnumChars == Range(LowerAlpha) \cup Range(UpperAlpha) \cup Range(Digits)

\* [a-zA-Z0-9]
IsAlnum(c) == c \in AlnumChars

\* \w of the token pattern: alphanumerics and the underscore
IsWordChar(c) == IsAlnum(c) \/ c = "_"

LowerOf == [c \in Range(UpperAlpha) |->
              LowerAlpha[CHOOSE i \in DOMAIN UpperAlpha : UpperAlpha[i] = c]]

\* str.lower() on one character
ToLower(c) == IF c \in DOMAIN LowerOf THEN LowerOf[c] ELSE c

\* position of a word character in code-point order: digits, "_", lower case
RankOf == [c \in Range(Digits) \cup {"_"} \cup Range(LowerAlpha) |->
             IF c \in Range(Digits) THEN CHOOSE i \in DOMAIN Digits : Digits[i] = c
             ELSE IF c = "_" THEN 11
             ELSE 11 + (CHOOSE i \in DOMAIN LowerAlpha : LowerAlpha[i] = c)]

CharRank(c) == IF c \in DOMAIN RankOf THEN RankOf[c] ELSE 0

(***************************************************************************)
(* Strings                                                                 *)
(***************************************************************************)
\* str.lower()
Lower(t) == [i \in DOMAIN t |-> ToLower(t[i])]

\* str.strip(): drop leading and trailing whitespace
Strip(t) ==
  LET keep == { i \in DOMAIN t : ~IsSpace(t[i]) }
  IN IF keep = {} THEN <<>>
     ELSE LET lo == CHOOSE i \in keep : \A j \in keep : i <= j
              hi == CHOOSE i \in keep : \A j \in keep : j <= i
          IN SubSeq(t, lo, hi)

\* re.sub(r"[^a-zA-Z0-9\s]", " ", t)
SubNonAlnum(t) ==
  [i \in DOMAIN t |-> IF IsAlnum(t[i]) \/ IsSpace(t[i]) THEN t[i] ELSE " "]

\* re.sub(r"\s+", " ", t): every maximal run of whitespace becomes one space
RECURSIVE CollapseFrom(_, _)
CollapseFrom(t, i) ==
  IF i > Len(t) THEN <<>>
  ELSE IF IsSpace(t[i])
    THEN IF i > 1 /\ IsSpace(t[i-1])
           THEN CollapseFrom(t, i + 1)
           ELSE <<" ">> \o CollapseFrom(t, i + 1)
    ELSE <<t[i]>> \o CollapseFrom(t, i + 1)

CollapseSpaces(t) == CollapseFrom(t, 1)

\* maincode.clean_text
clean_text(t) == Strip(CollapseSpaces(SubNonAlnum(Lower(t))))

\* sep.join(parts)
RECURSIVE Join(_, _)
Join(sep, parts) ==
  IF parts = <<>> THEN <<>>
  ELSE IF Len(parts) = 1 THEN parts[1]
  ELSE parts[1] \o sep \o Join(sep, Tail(parts))

\* lexicographic order of two strings of word characters
RECURSIVE StrLess(_, _)
StrLess(a, b) ==
  IF b = <<>> THEN FALSE
  ELSE IF a = <<>> THEN TRUE
  ELSE IF CharRank(a[1]) # CharRank(b[1]) THEN CharRank(a[1]) < CharRank(b[1])
  ELSE StrLess(Tail(a), Tail(b))

(***************************************************************************)
(* Exceptions: a handler "except T" catches T and, for Exception, every    *)
(* exception type the steps below can raise                                *)
(***************************************************************************)
ExcTypes == {"ValueError", "ImportError", "RuntimeError"}

Catches(handler, type) == handler = "Exception" \/ handler = type

(***************************************************************************)
(* TfidfVectorizer(stop_words="english", max_features=3000, min_df=1)      *)
(* Weights are fixed point: idf in 1/1000, row weights in 1/100000.  The   *)
(* max_features limit is above every vocabulary the bounds can build.      *)
(***************************************************************************)
\* the members of sklearn's ENGLISH_STOP_WORDS that the bounded texts can spell
StopWords == { <<"b","e">>, <<"a","n">>, <<"a","s">>, <<"a","t">>,
               <<"b","y">>, <<"d","e">>, <<"t","h","e">>, <<"a","n","d">> }

\* token_pattern (?u)\b\w\w+\b: the maximal runs of word characters of length >= 2
RECURSIVE TokensFrom(_, _, _)
TokensFrom(t, i, cur) ==
  LET done == IF Len(cur) >= 2 THEN <<cur>> ELSE <<>>
  IN IF i > Len(t) THEN done
     ELSE IF IsWordChar(t[i]) THEN TokensFrom(t, i + 1, Append(cur, t[i]))
     ELSE done \o TokensFrom(t, i + 1, <<>>)

Tokens(t) == TokensFrom(t, 1, <<>>)

IsContentWord(w) == w \notin StopWords

\* build_analyzer: lowercase, tokenize, drop stop words
Analyze(d) == SelectSeq(Tokens(Lower(d)), IsContentWord)

\* the analysed documents of a group, each analysed once
Analysed(docs) == <<>> \o [i \in DOMAIN docs |-> Analyze(docs[i])]

VocabularyOf(adocs) == UNION { Range(adocs[i]) : i \in DOMAIN adocs }

Vocabulary(docs) == VocabularyOf(Analysed(docs))

\* get_feature_names_out(): the vocabulary in sorted order
TermsOf(adocs) ==
  LET V == VocabularyOf(adocs)
  IN <<>> \o [i \in 1..Cardinality(V) |->
                CHOOSE t \in V : Cardinality({ u \in V : StrLess(u, t) }) = i - 1]

Terms(docs) == TermsOf(Analysed(docs))

\* term count of t in an analysed document
TermCount(a, t) == Cardinality({ i \in DOMAIN a : a[i] = t })

\* number of documents of the group that contain t
DocFreq(adocs, t) == Cardinality({ i \in DOMAIN adocs : t \in Range(adocs[i]) })

\* 1000 * ln(m), m = 1..8
LnMilli == <<0, 693, 1099, 1386, 1609, 1792, 1946, 2079>>

\* smooth idf: ln((1 + n) / (1 + df)) + 1
Idf(n, df) == 1000 + LnMilli[1 + n] - LnMilli[1 + df]

RECURSIVE SumSeq(_)
SumSeq(s) == IF s = <<>> THEN 0 ELSE s[1] + SumSeq(Tail(s))

RECURSIVE ISqrtIn(_, _, _)
ISqrtIn(n, lo, hi) ==
  IF lo >= hi THEN lo
  ELSE LET mid == (lo + hi + 1) \div 2
       IN IF mid * mid <= n THEN ISqrtIn(n, mid, hi) ELSE ISqrtIn(n, lo, mid - 1)

ISqrt(n) == ISqrtIn(n, 0, 46340)

\* one l2-normalised tf-idf row of X, idfs[j] being the idf of terms[j]
TfidfRow(terms, idfs, a) ==
  LET raw  == <<>> \o [j \in DOMAIN terms |-> TermCount(a, terms[j]) * idfs[j]]
      norm == ISqrt(SumSeq([j \in DOMAIN terms |-> raw[j] * raw[j]]))
  IN <<>> \o [j \in DOMAIN terms |->
                IF norm = 0 THEN 0 ELSE (raw[j] * 100000) \div norm]

\* np.asarray(X.sum(axis=0)).ravel()
Sums(docs) ==
  LET adocs == Analysed(docs)
      terms == TermsOf(adocs)
      idfs == <<>> \o [j \in DOMAIN terms |-> Idf(Len(adocs), DocFreq(adocs, terms[j]))]
      X == <<>> \o [i \in DOMAIN adocs |-> TfidfRow(terms, idfs, adocs[i])]
  IN <<>> \o [j \in DOMAIN terms |-> SumSeq([i \in DOMAIN adocs |-> X[i][j]])]

\* sums.argsort(): an ascending order of the indices; the default sort kind is
\* not stable, so equal sums may come in any order
ArgsortOrders(sums) ==
  LET n == Len(sums)
  IN { p \in [1..n -> 1..n] :
         /\ \A i, j \in 1..n : i # j => p[i] # p[j]
         /\ \A i, j \in 1..n : i < j => sums[p[i]] <= sums[p[j]] }

\* [::-1][:3]
TopIndicesReversedMissing(order) ==
  [i \in 1..(IF Len(order) < 3 THEN Len(order) ELSE 3) |-> order[i]]

TopIndices(order) ==
  LET n == Len(order)
  IN [i \in 1..(IF n < 3 THEN n ELSE 3) |-> order[n + 1 - i]]

NoTopic == <<"N","o"," ","t","o","p","i","c">>

CommaSpace == <<",", " ">>

\* the try body of extract_topic once fit_transform has returned
TopicOf(docs, order) ==
  LET terms == Terms(docs)
      top == [i \in DOMAIN TopIndices(order) |-> terms[TopIndices(order)[i]]]
  IN IF Len(docs) = 0 \/ Len(terms) = 0 THEN NoTopic
     ELSE IF Len(top) > 0 THEN Join(CommaSpace, top) ELSE NoTopic

\* the exception the try body ends with: the one the vectorizer raises, or
\* fit_transform's ValueError("empty vocabulary")
TopicBodyRaises(docs, exc) ==
  IF exc # "none" THEN exc
  ELSE IF Vocabulary(docs) = {} THEN "ValueError"
  ELSE "none"

TopicHandlerCatchesValueErrorOnly(type) == Catches("ValueError", type)

\* except Exception
TopicHandlerCatches(type) == Catches("Exception", type)

\* maincode.extract_topic: the set of results [raised, value] it can end with,
\* exc being what the vectorizer raises ("none": nothing)
extract_topic(docs, exc) ==
  IF docs = <<>> THEN { [raised |-> "none", value |-> NoTopic] }
  ELSE LET r == TopicBodyRaises(docs, exc)
       IN IF r # "none"
            THEN IF TopicHandlerCatches(r)
                   THEN { [raised |-> "none", value |-> NoTopic] }
                   ELSE { [raised |-> r, value |-> <<>>] }
            ELSE { [raised |-> "none", value |-> TopicOf(docs, o)] :
                     o \in ArgsortOrders(Sums(docs)) }

(***************************************************************************)
(* file_handler.py.  An uploaded file is [filename, size, text, corrupt]:  *)
(* size is len(file.read()), text is what the reader of its format yields  *)
(* before the final strip(), corrupt says that this reader raises.         *)
(***************************************************************************)
Str_txt  == <<"t","x","t">>
Str_pdf  == <<"p","d","f">>
Str_docx == <<"d","o","c","x">>
Str_doc  == <<"d","o","c">>
Str_pptx == <<"p","p","t","x">>

ALLOWED_EXTENSIONS == {Str_txt, Str_pdf, Str_docx, Str_doc, Str_pptx}

MAX_FILE_SIZE == 10 * 1024 * 1024

\* filename.rsplit('.', 1)[1], for a filename that holds a '.'
RSplitExt(filename) ==
  LET dots == { i \in DOMAIN filename : filename[i] = "." }
      last == CHOOSE i \in dots : \A j \in dots : j <= i
  IN SubSeq(filename, last + 1, Len(filename))

allowed_file(filename) ==
  /\ "." \in Range(filename)
  /\ Lower(RSplitExt(filename)) \in ALLOWED_EXTENSIONS

\* extract_text_from_pdf / _docx / _pptx: ImportError without the library, any
\* reader failure re-raised as ValueError, else the stripped text
ExtractWithLibrary(installed, file) ==
  IF ~installed THEN [raised |-> "ImportError", value |-> <<>>]
  ELSE IF file.corrupt THEN [raised |-> "ValueError", value |-> <<>>]
  ELSE [raised |-> "none", value |-> Strip(file.text)]

\* extract_text_from_txt: a decode error falls back to latin-1, any other
\* failure is re-raised as ValueError
extract_text_from_txt(file) ==
  IF file.corrupt THEN [raised |-> "ValueError", value |-> <<>>]
  ELSE [raised |-> "none", value |-> Strip(file.text)]

extract_text_from_file(has, file, file_type) ==
  LET ft == Lower(file_type)
  IN IF ft = Str_pdf THEN ExtractWithLibrary(has.pdf, file)
     ELSE IF ft = Str_docx THEN ExtractWithLibrary(has.docx, file)
     ELSE IF ft = Str_pptx THEN ExtractWithLibrary(has.pptx, file)
     ELSE IF ft \in {Str_txt, Str_doc} THEN extract_text_from_txt(file)
     ELSE [raised |-> "ValueError", value |-> <<>>]

\* the handlers of the try statement in process_uploaded_files
UploadErrorImportOnly(filename, type) ==
  IF Catches("ImportError", type) THEN << <<"Missing dependency for", filename>> >>
  ELSE <<>>

UploadError(filename, type) ==
  IF Catches("ImportError", type) THEN << <<"Missing dependency for", filename>> >>
  ELSE IF Catches("Exception", type) THEN << <<"Error processing", filename>> >>
  ELSE <<>>

\* One iteration of the loop of process_uploaded_files: the documents and the
\* errors it appends, and whether the temporary file it created is left behind.
\* os.unlink of the still open temporary file succeeds (POSIX).
ProcessOne(has, file) ==
  IF file.filename = <<>>
    THEN [docs |-> <<>>, errs |-> << <<"Empty filename", <<>> >> >>, tmp |-> FALSE]
  ELSE IF ~allowed_file(file.filename)
    THEN [docs |-> <<>>, errs |-> << <<"File type not allowed", file.filename>> >>,
          tmp |-> FALSE]
  ELSE IF file.size > MAX_FILE_SIZE
    THEN [docs |-> <<>>, errs |-> << <<"File too large", file.filename>> >>,
          tmp |-> FALSE]
  ELSE LET file_ext == Lower(RSplitExt(file.filename))
           r == extract_text_from_file(has, file, file_ext)
       IN IF r.raised # "none"
            THEN [docs |-> <<>>, errs |-> UploadError(file.filename, r.raised),
                  tmp |-> TRUE]
          ELSE IF r.value # <<>>
            THEN [docs |-> <<r.value>>, errs |-> <<>>, tmp |-> FALSE]
          ELSE [docs |-> <<>>, errs |-> << <<"No text extracted from", file.filename>> >>,
                tmp |-> FALSE]

(***************************************************************************)
(* Bounds and the inputs drawn from them                                   *)
(***************************************************************************)
MaxDocs == 3
MaxFiles == 2
MaxGroup == 2

SeqsUpTo(S, n) == UNION { [1..m -> S] : m \in 0..n }

T_blank == <<" ">>
T_punct == <<"!","!">>
T_abzz  == <<"a","b"," ","z","z">>
T_zzab  == <<" ","z","z"," ","A","b","\n">>
T_be    == <<"B","e">>
T_four  == <<"a","b"," ","c","d"," ","c","d"," ","e","f"," ","z","z">>
T_cdcd  == <<"c","d",","," ","c","d",".","z","z">>

\* the documents a request or a direct call can carry
DocPool == {T_blank, T_punct, T_zzab}

\* the documents a topic group can hold
TopicPool == {T_blank, T_punct, T_abzz, T_zzab, T_be, T_four, T_cdcd}

File(name, size, text, corrupt) ==
  [filename |-> name, size |-> size, text |-> text, corrupt |-> corrupt]

FilePool ==
  { File(<<>>, 5, T_abzz, FALSE),
    File(<<"a",".","e","x","e">>, 5, T_abzz, FALSE),
    File(<<"a",".","T","X","T">>, 5, T_abzz, FALSE),
    File(<<"b",".","t","x","t">>, MAX_FILE_SIZE + 1, T_abzz, FALSE),
    File(<<"c",".","p","d","f">>, MAX_FILE_SIZE, T_zzab, FALSE),
    File(<<"d",".","d","o","c","x">>, 5, T_abzz, TRUE),
    File(<<"e",".","p","p","t","x">>, 5, T_punct, FALSE),
    File(<<"f",".","d","o","c">>, 0, T_blank, FALSE) }

\* the values of the clusters field; 2..20 is the range the endpoint accepts
\* (Requests adds one request of 21 documents for 21 clusters)
Ks == 0..(MaxDocs + 1) \cup {20, 21}

HasFlags == [pdf : BOOLEAN, docx : BOOLEAN, pptx : BOOLEAN]

(***************************************************************************)
(* State                                                                   *)
(***************************************************************************)
VARIABLES
  request,           \* the HTTP request, or the arguments of a direct call
  has,               \* HAS_PDF, HAS_DOCX, HAS_PPTX
  pc,                \* position of the request in the pipeline
  documents, k,      \* the arguments run_document_clustering is called with
  fileIdx, errors,   \* process_uploaded_files: loop position, error list
  tmpfiles,          \* positions of the files whose temporary file exists
  cleaned, original_indices,
  encodeCalls,       \* the argument of every model.encode call
  fitCalls,          \* the [n, k] of every KMeans.fit_predict call
  labels, clusters,
  response,          \* [status, error] of cluster_api; status 0: none yet
  failure,           \* [step, type] of the exception that ended the run
  group, vexc, topic_result   \* extract_topic called on its own

vars == <<request, has, pc, documents, k, fileIdx, errors, tmpfiles, cleaned,
          original_indices, encodeCalls, fitCalls, labels, clusters, response,
          failure, group, vexc, topic_result>>

NoFailure == [step |-> "none", type |-> "none"]
NoResponse == [status |-> 0, error |-> ""]
NoResult == [raised |-> "none", value |-> <<>>]

Requests ==
  [kind : {"json", "direct"}, documents : SeqsUpTo(DocPool, MaxDocs),
   files : {<<>>}, clusters : { <<n>> : n \in Ks }]
  \cup [kind : {"json"}, documents : SeqsUpTo(DocPool, MaxDocs),
        files : {<<>>}, clusters : {<<>>}]
  \cup [kind : {"files"}, documents : {<<>>},
        files : SeqsUpTo(FilePool, MaxFiles),
        clusters : { <<n>> : n \in {1, MaxFiles, 21} } \cup {<<>>}]
  \cup [kind : {"empty_json", "none"}, documents : {<<>>}, files : {<<>>},
        clusters : {<<>>}]
  \cup { [kind |-> "json", documents |-> [i \in 1..21 |-> T_zzab], files |-> <<>>,
          clusters |-> <<21>>] }

\* A direct call starts inside run_document_clustering; an HTTP request starts
\* in cluster_api.  The HAS_ flags are read by uploads only.
Init ==
  /\ request \in Requests
  /\ has \in HasFlags
  /\ request.kind # "files" => has = [pdf |-> TRUE, docx |-> TRUE, pptx |-> TRUE]
  /\ pc = IF request.kind = "direct" THEN "Normalizing" ELSE "Validating"
  /\ documents = IF request.kind = "direct" THEN request.documents ELSE <<>>
  /\ k = IF request.kind = "direct" THEN request.clusters[1] ELSE 0
  /\ fileIdx = 1
  /\ errors = <<>>
  /\ tmpfiles = {}
  /\ cleaned = <<>>
  /\ original_indices = <<>>
  /\ encodeCalls = <<>>
  /\ fitCalls = <<>>
  /\ labels = <<>>
  /\ clusters = <<>>
  /\ response = NoResponse
  /\ failure = NoFailure
  /\ group = <<>>
  /\ vexc = "none"
  /\ topic_result = NoResult

(***************************************************************************)
(* app.cluster_api                                                         *)
(***************************************************************************)
ViaApi == request.kind # "direct"

\* int(request.form.get('clusters', ... .get('clusters', 2) ...))
ParseK(req) == IF req.clusters = <<>> THEN 2 ELSE req.clusters[1]

KOutOfRangeNoLowerBound(n) == n > 20

\* k < 2 or k > 20
KOutOfRange(n) == n < 2 \/ n > 20

\* documents = [d.strip() for d in documents if d.strip()]
RECURSIVE FilterEmpty(_)
FilterEmpty(docs) ==
  IF docs = <<>> THEN <<>>
  ELSE (IF Strip(docs[1]) # <<>> THEN <<Strip(docs[1])>> ELSE <<>>)
       \o FilterEmpty(Tail(docs))

ApiError(status, msg) ==
  /\ response' = [status |-> status, error |-> msg]
  /\ pc' = "Failed"

\* the two handlers of cluster_api: except ValueError, then except Exception
ApiHandler(type, msg) ==
  IF Catches("ValueError", type) THEN [status |-> 400, error |-> msg]
  ELSE [status |-> 500, error |-> "Clustering failed"]

\* an exception leaves run_document_clustering: cluster_api handles it, a
\* direct caller receives it
Raise(step, type, msg) ==
  /\ pc' = "Failed"
  /\ failure' = [step |-> step, type |-> type]
  /\ response' = IF ViaApi THEN ApiHandler(type, msg) ELSE response

\* lines 61-72: read k, check it, call run_document_clustering
ApiCheckKAndCall(docs) ==
  LET kk == ParseK(request)
  IN IF KOutOfRange(kk)
       THEN /\ ApiError(400, "Number of clusters must be between 2 and 20")
            /\ UNCHANGED <<documents, k>>
     ELSE IF Len(docs) < kk
       THEN /\ ApiError(400, "Number of clusters cannot exceed number of documents")
            /\ UNCHANGED <<documents, k>>
     ELSE /\ pc' = "Normalizing"
          /\ documents' = docs
          /\ k' = kk
          /\ UNCHANGED response

\* neither files nor a JSON body with content
ClusterApiNoInput ==
  /\ pc = "Validating"
  /\ \/ request.kind \in {"none", "empty_json"}
     \/ request.kind = "files" /\ request.files = <<>>
  /\ ApiError(400, IF request.kind = "empty_json" THEN "No JSON received"
                   ELSE "Please provide either documents or files")
  /\ UNCHANGED <<request, has, documents, k, fileIdx, errors, tmpfiles, cleaned,
                 original_indices, encodeCalls, fitCalls, labels, clusters, failure,
                 group, vexc, topic_result>>

\* the JSON branch
ClusterApiJson ==
  /\ pc = "Validating"
  /\ request.kind = "json"
  /\ IF request.documents = <<>>
       THEN /\ ApiError(400, "Please enter at least one document")
            /\ UNCHANGED <<documents, k>>
     ELSE IF FilterEmpty(request.documents) = <<>>
       THEN /\ ApiError(400, "No valid documents found")
            /\ UNCHANGED <<documents, k>>
     ELSE ApiCheckKAndCall(FilterEmpty(request.documents))
  /\ UNCHANGED <<request, has, fileIdx, errors, tmpfiles, cleaned, original_indices,
                 encodeCalls, fitCalls, labels, clusters, failure,
                 group, vexc, topic_result>>

\* the upload branch: cluster_api calls process_uploaded_files
ClusterApiFiles ==
  /\ pc = "Validating"
  /\ request.kind = "files"
  /\ Len(request.files) > 0
  /\ pc' = "Uploading"
  /\ UNCHANGED <<request, has, documents, k, fileIdx, errors, tmpfiles, cleaned,
                 original_indices, encodeCalls, fitCalls, labels, clusters, response,
                 failure, group, vexc, topic_result>>

\* process_uploaded_files: one iteration of its loop
ProcessFile ==
  /\ pc = "Uploading"
  /\ fileIdx <= Len(request.files)
  /\ LET out == ProcessOne(has, request.files[fileIdx])
     IN /\ documents' = documents \o out.docs
        /\ errors' = errors \o out.errs
        /\ tmpfiles' = IF out.tmp THEN tmpfiles \cup {fileIdx} ELSE tmpfiles
  /\ fileIdx' = fileIdx + 1
  /\ UNCHANGED <<request, has, pc, k, cleaned, original_indices, encodeCalls,
                 fitCalls, labels, clusters, response, failure,
                 group, vexc, topic_result>>

\* process_uploaded_files has returned (documents, errors)
ClusterApiAfterUpload ==
  /\ pc = "Uploading"
  /\ fileIdx > Len(request.files)
  /\ IF documents = <<>>
       THEN /\ ApiError(400, "No documents extracted")
            /\ UNCHANGED <<documents, k>>
     ELSE ApiCheckKAndCall(documents)
  /\ UNCHANGED <<request, has, fileIdx, errors, tmpfiles, cleaned, original_indices,
                 encodeCalls, fitCalls, labels, clusters, failure,
                 group, vexc, topic_result>>

(***************************************************************************)
(* maincode.run_document_clustering.  Positions are 1-based here.          *)
(***************************************************************************)
SurvivesAlways(d) == TRUE

\* if d.strip()
Survives(d) == Strip(d) # <<>>

\* the loop of lines 48-53, from position i on
RECURSIVE CleanLoop(_, _)
CleanLoop(docs, i) ==
  IF i > Len(docs) THEN [cleaned |-> <<>>, original_indices |-> <<>>]
  ELSE LET rest == CleanLoop(docs, i + 1)
       IN IF Survives(docs[i])
            THEN [cleaned |-> <<clean_text(docs[i])>> \o rest.cleaned,
                  original_indices |-> <<i>> \o rest.original_indices]
            ELSE rest

\* lines 43-56
RunClean ==
  /\ pc = "Normalizing"
  /\ IF documents = <<>>
       THEN /\ Raise("validate", "ValueError", "No documents provided")
            /\ UNCHANGED <<cleaned, original_indices>>
     ELSE LET c == CleanLoop(documents, 1)
          IN /\ cleaned' = c.cleaned
             /\ original_indices' = c.original_indices
             /\ IF Len(c.cleaned) < k
                  THEN Raise("validate", "ValueError",
                             "Number of clusters cannot exceed number of documents")
                  ELSE /\ pc' = "Embedding"
                       /\ UNCHANGED <<response, failure>>
  /\ UNCHANGED <<request, has, documents, k, fileIdx, errors, tmpfiles, encodeCalls,
                 fitCalls, labels, clusters, group, vexc, topic_result>>

\* embeddings = model.encode(cleaned): returns, or raises
Encode ==
  /\ pc = "Embedding"
  /\ encodeCalls' = Append(encodeCalls, cleaned)
  /\ \/ /\ pc' = "Clustering"
        /\ UNCHANGED <<response, failure>>
     \/ \E type \in ExcTypes : Raise("encode", type, "encode failed")
  /\ UNCHANGED <<request, has, documents, k, fileIdx, errors, tmpfiles, cleaned,
                 original_indices, fitCalls, labels, clusters,
                 group, vexc, topic_result>>

\* labels = KMeans(n_clusters=k, ...).fit_predict(embeddings): one label in
\* 0..k-1 per row; ValueError unless 1 <= k <= number of rows
KMeansFit ==
  /\ pc = "Clustering"
  /\ fitCalls' = Append(fitCalls, [n |-> Len(cleaned), k |-> k])
  /\ IF k < 1 \/ Len(cleaned) < k
       THEN /\ Raise("kmeans", "ValueError", "invalid n_clusters")
            /\ UNCHANGED labels
       ELSE \/ /\ labels' \in [1..Len(cleaned) -> 0..(k - 1)]
               /\ pc' = "TopicExtraction"
               /\ UNCHANGED <<response, failure>>
            \/ /\ \E type \in ExcTypes : Raise("kmeans", type, "fit_predict failed")
               /\ UNCHANGED labels
  /\ UNCHANGED <<request, has, documents, k, fileIdx, errors, tmpfiles, cleaned,
                 original_indices, encodeCalls, clusters, group, vexc, topic_result>>

ClusterIdsFromOne(n) == 1..n

\* range(k)
ClusterIds(n) == 0..(n - 1)

RECURSIVE DocsInClusterBackwards(_, _, _, _, _)
DocsInClusterBackwards(docs, oi, labs, cid, i) ==
  IF i > Len(labs) THEN <<>>
  ELSE DocsInClusterBackwards(docs, oi, labs, cid, i + 1)
       \o (IF labs[i] = cid THEN <<docs[oi[i]]>> ELSE <<>>)

\* [documents[original_indices[i]] for i in range(len(cleaned)) if labels[i] == cid],
\* from position i on
RECURSIVE DocsInCluster(_, _, _, _, _)
DocsInCluster(docs, oi, labs, cid, i) ==
  IF i > Len(labs) THEN <<>>
  ELSE (IF labs[i] = cid THEN <<docs[oi[i]]>> ELSE <<>>)
       \o DocsInCluster(docs, oi, labs, cid, i + 1)

\* what the vectorizer of one extract_topic call raises
VectorizerExcs == {"none", "RuntimeError"}

\* every way to pick, for each id, one member of opts[id]
RECURSIVE ChoicesOver(_, _)
ChoicesOver(ids, opts) ==
  IF ids = {} THEN { <<>> }
  ELSE LET c == CHOOSE c \in ids : TRUE
       IN { (c :> h) @@ t : h \in opts[c], t \in ChoicesOver(ids \ {c}, opts) }

\* lines 67-81, and the return of cluster_api; res[cid] is what the
\* extract_topic call of cluster cid ends with
Assemble ==
  /\ pc = "TopicExtraction"
  /\ LET docsOf(cid) == DocsInCluster(documents, original_indices, labels, cid, 1)
         opts == [cid \in ClusterIds(k) |->
                    UNION { extract_topic(docsOf(cid), e) : e \in VectorizerExcs }]
     IN \E res \in ChoicesOver(ClusterIds(k), opts) :
          IF \E cid \in ClusterIds(k) : res[cid].raised # "none"
            THEN /\ Raise("topic",
                          res[CHOOSE cid \in ClusterIds(k) :
                                res[cid].raised # "none"].raised,
                          "extract_topic failed")
                 /\ UNCHANGED clusters
            ELSE /\ clusters' = [cid \in ClusterIds(k) |->
                                   [topic |-> res[cid].value, docs |-> docsOf(cid)]]
                 /\ pc' = "Done"
                 /\ response' = IF ViaApi THEN [status |-> 200, error |-> ""]
                                ELSE response
                 /\ UNCHANGED failure
  /\ UNCHANGED <<request, has, documents, k, fileIdx, errors, tmpfiles, cleaned,
                 original_indices, encodeCalls, fitCalls, labels,
                 group, vexc, topic_result>>

Next ==
  \/ ClusterApiNoInput
  \/ ClusterApiJson
  \/ ClusterApiFiles
  \/ ProcessFile
  \/ ClusterApiAfterUpload
  \/ RunClean
  \/ Encode
  \/ KMeansFit
  \/ Assemble

Spec == Init /\ [][Next]_vars

(***************************************************************************)
(* extract_topic called on a document group of its own                     *)
(***************************************************************************)
InitTopic ==
  /\ request = [kind |-> "none", documents |-> <<>>, files |-> <<>>, clusters |-> <<>>]
  /\ has = [pdf |-> TRUE, docx |-> TRUE, pptx |-> TRUE]
  /\ pc = "TopicCall"
  /\ documents = <<>>
  /\ k = 0
  /\ fileIdx = 1
  /\ errors = <<>>
  /\ tmpfiles = {}
  /\ cleaned = <<>>
  /\ original_indices = <<>>
  /\ encodeCalls = <<>>
  /\ fitCalls = <<>>
  /\ labels = <<>>
  /\ clusters = <<>>
  /\ response = NoResponse
  /\ failure = NoFailure
  /\ group \in SeqsUpTo(TopicPool, MaxGroup)
  /\ vexc = "none"
  /\ topic_result = NoResult

ExtractTopicCall ==
  /\ pc = "TopicCall"
  /\ \E exc \in {"none"} \cup ExcTypes :
       /\ vexc' = exc
       /\ topic_result' \in extract_topic(group, exc)
  /\ pc' = IF topic_result'.raised = "none" THEN "TopicReturned" ELSE "TopicRaised"
  /\ UNCHANGED <<request, has, documents, k, fileIdx, errors, tmpfiles, cleaned,
                 original_indices, encodeCalls, fitCalls, labels, clusters, response,
                 failure, group>>

NextTopic == ExtractTopicCall

SpecTopic == InitTopic /\ [][NextTopic]_vars

(***************************************************************************)
(* Properties                                                              *)
(***************************************************************************)
IsBlank(d) == Strip(d) = <<>>

\* positions of the caller's documents that are not empty or whitespace
Surviving == { j \in DOMAIN documents : ~IsBlank(documents[j]) }

\* position of surviving document j among the surviving ones
RankOfDoc(j) == Cardinality({ i \in Surviving : i <= j })

\* input positions of the documents labelled cid
Members(cid) == { j \in Surviving : labels[RankOfDoc(j)] = cid }

CountIn(s, x) == Cardinality({ i \in DOMAIN s : s[i] = x })

RECURSIVE SumOver(_, _)
SumOver(S, f) ==
  IF S = {} THEN 0
  ELSE LET c == CHOOSE c \in S : TRUE IN f[c] + SumOver(S \ {c}, f)

\* C1: a run that returns with 2 <= k <= 20 and k <= N returns a mapping whose
\* keys are exactly 0..k-1, and a cluster id no document was labelled with is
\* present with docs = [] and topic = "No topic".
C1_EveryClusterIdPresent ==
  (pc = "Done" /\ 2 <= k /\ k <= 20 /\ k <= Cardinality(Surviving)) =>
    /\ DOMAIN clusters = 0..(k - 1)
    /\ Cardinality(DOMAIN clusters) = k
    /\ \A cid \in 0..(k - 1) :
         (\A i \in DOMAIN labels : labels[i] # cid) =>
           clusters[cid] = [topic |-> NoTopic, docs |-> <<>>]

\* a run returned with a cluster id that received no document
C1_Witness ==
  /\ pc = "Done"
  /\ k >= 2
  /\ \E cid \in 0..(k - 1) :
       /\ \A i \in DOMAIN labels : labels[i] # cid
       /\ cid \in DOMAIN clusters
       /\ clusters[cid].docs = <<>>

\* C2: in a returned result every surviving document occurs in the docs lists
\* as often as it occurs among the surviving inputs (each occurrence is in
\* exactly one cluster), no empty or whitespace-only document is in any docs
\* list, and the docs lists hold N documents in total.
C2_DocsPartitionSurvivors ==
  pc = "Done" =>
    LET texts == Range(documents)
                   \cup UNION { Range(clusters[cid].docs) : cid \in DOMAIN clusters }
    IN /\ \A t \in texts :
            SumOver(DOMAIN clusters,
                    [cid \in DOMAIN clusters |-> CountIn(clusters[cid].docs, t)])
              = Cardinality({ j \in Surviving : documents[j] = t })
       /\ \A cid \in DOMAIN clusters :
            \A n \in DOMAIN clusters[cid].docs : ~IsBlank(clusters[cid].docs[n])
       /\ SumOver(DOMAIN clusters,
                  [cid \in DOMAIN clusters |-> Len(clusters[cid].docs)])
            = Cardinality(Surviving)

\* a run returned although the caller passed a whitespace-only document
C2_Witness ==
  /\ pc = "Done"
  /\ \E j \in DOMAIN documents : IsBlank(documents[j])
  /\ Cardinality(Surviving) >= 2

\* the documents of the request that survive the endpoint's checks
ApiSurvivorCount ==
  IF request.kind = "json"
    THEN Cardinality({ j \in DOMAIN request.documents : ~IsBlank(request.documents[j]) })
    ELSE Cardinality({ j \in DOMAIN documents : ~IsBlank(documents[j]) })

PastValidation ==
  pc \in {"Normalizing", "Embedding", "Clustering", "TopicExtraction", "Done"}

\* C3: a request of cluster_api reaches model.encode or KMeans.fit_predict, or
\* any step after validation, only if it has at least one surviving document,
\* 2 <= k <= 20 and k <= the number of surviving documents; every other
\* request is answered by its validation step, with an error response.
C3_InvalidRequestNeverReachesModel ==
  ViaApi =>
    /\ (PastValidation \/ encodeCalls # <<>> \/ fitCalls # <<>>) =>
         /\ ApiSurvivorCount > 0
         /\ 2 <= ParseK(request) /\ ParseK(request) <= 20
         /\ ParseK(request) <= ApiSurvivorCount
    /\ pc = "Failed" => response.status \in {400, 500}
    /\ pc = "Validating" =>
         ENABLED (ClusterApiNoInput \/ ClusterApiJson \/ ClusterApiFiles)
    /\ (pc = "Uploading" /\ fileIdx > Len(request.files)) =>
         ENABLED ClusterApiAfterUpload

\* a request with 2 <= k <= 20 and more clusters than surviving documents has
\* ended with status 400 without any encode or fit_predict call
C3_Witness ==
  /\ ViaApi
  /\ pc = "Failed"
  /\ response.status = 400
  /\ ApiSurvivorCount > 0
  /\ 2 <= ParseK(request) /\ ParseK(request) <= 20
  /\ ParseK(request) > ApiSurvivorCount
  /\ encodeCalls = <<>> /\ fitCalls = <<>>

\* C4: no text passed to model.encode is the empty string, and model.encode
\* is called only if k <= the number of documents whose normalized text is
\* not empty.
C4_NoEmptyTextReachesEmbedder ==
  \A c \in DOMAIN encodeCalls :
    /\ \A i \in DOMAIN encodeCalls[c] : encodeCalls[c][i] # <<>>
    /\ k <= Cardinality({ j \in DOMAIN documents : clean_text(documents[j]) # <<>> })

\* C5: a failure raised by model.encode or by KMeans.fit_predict is answered
\* by cluster_api with status 500, whatever its exception type.
C5_InfrastructureFailureIs500 ==
  (ViaApi /\ failure.step \in {"encode", "kmeans"}) => response.status = 500

\* C6: extract_topic never raises; it returns "No topic" for an empty group,
\* for a group whose vocabulary is empty after stop-word removal, and whenever
\* the weighting step raises.
C6_TopicNeverPropagates ==
  /\ pc # "TopicRaised"
  /\ pc = "TopicReturned" =>
       /\ topic_result.raised = "none"
       /\ (group = <<>> \/ vexc # "none"
           \/ \A i \in DOMAIN group : \A w \in Range(Tokens(Lower(group[i]))) :
                w \in StopWords)
            => topic_result.value = NoTopic

\* the weighting step raised on a group that has a vocabulary, and "No topic"
\* came back
C6_Witness ==
  /\ pc = "TopicReturned"
  /\ vexc = "RuntimeError"
  /\ Vocabulary(group) # {}
  /\ topic_result.value = NoTopic

\* the same policy inside the pipeline: no run ends with an exception of
\* extract_topic
TopicNeverFailsPipeline == failure.step # "topic"

\* position of the first occurrence of term t in the group (documents in
\* order, tokens in order)
FirstSeen(adocs, t) ==
  LET i == CHOOSE i \in DOMAIN adocs :
             /\ t \in Range(adocs[i])
             /\ \A j \in 1..(i - 1) : t \notin Range(adocs[j])
      n == CHOOSE n \in DOMAIN adocs[i] :
             /\ adocs[i][n] = t
             /\ \A m \in 1..(n - 1) : adocs[i][m] # t
  IN i * 1000 + n

WeightOf(docs, t) ==
  LET terms == Terms(docs)
  IN Sums(docs)[CHOOSE j \in DOMAIN terms : terms[j] = t]

TopLen(docs) ==
  IF Cardinality(Vocabulary(docs)) < 3 THEN Cardinality(Vocabulary(docs)) ELSE 3

\* the sequences of distinct terms of the group, TopLen long, that hold the
\* highest summed weights in descending order
DescendingTops(docs) ==
  LET V == Vocabulary(docs)
      w == [t \in V |-> WeightOf(docs, t)]
  IN { top \in [1..TopLen(docs) -> V] :
         /\ \A i, j \in DOMAIN top : i < j => top[i] # top[j] /\ w[top[i]] >= w[top[j]]
         /\ \A t \in V \ Range(top) : \A i \in DOMAIN top : w[top[i]] >= w[t] }

\* C7 as stated: the returned topic is the top 3 terms by summed weight,
\* descending, terms of equal weight in first-encountered order, joined by ", ".
C7_TiesByFirstEncounter ==
  (pc = "TopicReturned" /\ vexc = "none" /\ Vocabulary(group) # {}) =>
    \E top \in DescendingTops(group) :
      /\ topic_result.value = Join(CommaSpace, top)
      /\ \A i, j \in DOMAIN top :
           (i < j /\ WeightOf(group, top[i]) = WeightOf(group, top[j])) =>
             FirstSeen(Analysed(group), top[i]) < FirstSeen(Analysed(group), top[j])
      /\ \A t \in Vocabulary(group) \ Range(top) : \A i \in DOMAIN top :
           WeightOf(group, top[i]) = WeightOf(group, t) =>
             FirstSeen(Analysed(group), top[i]) < FirstSeen(Analysed(group), t)

\* C7 amended: the returned topic is min(3, vocabulary size) distinct terms
\* joined by ", ", in non-increasing order of summed weight, none of them
\* lighter than a term left out; the order among terms of equal weight is
\* not fixed.
C7_TopThreeDescending ==
  (pc = "TopicReturned" /\ vexc = "none" /\ Vocabulary(group) # {}) =>
    \E top \in DescendingTops(group) : topic_result.value = Join(CommaSpace, top)

\* a topic came back for a group of more than three terms of unequal weight
C7_Witness ==
  /\ pc = "TopicReturned"
  /\ vexc = "none"
  /\ Cardinality(Vocabulary(group)) > 3
  /\ \E t, u \in Vocabulary(group) : WeightOf(group, t) # WeightOf(group, u)
  /\ topic_result.value # NoTopic

C9_DocsInInputOrder ==
  pc = "Done" =>
    \A cid \in DOMAIN clusters :
      LET docs == clusters[cid].docs
          M == Members(cid)
      IN /\ Len(docs) = Cardinality(M)
         /\ \A j \in M :
              docs[Cardinality({ i \in M : i <= j })] = documents[j]

\* two different documents around a whitespace-only one ended in one cluster
C9_Witness ==
  /\ pc = "Done"
  /\ \E a, b, c \in DOMAIN documents :
       /\ a < b /\ b < c
       /\ IsBlank(documents[b])
       /\ a \in Surviving /\ c \in Surviving
       /\ documents[a] # documents[c]
       /\ labels[RankOfDoc(a)] = labels[RankOfDoc(c)]

\* C10: once process_uploaded_files has returned, no temporary file it
\* created exists.
C10_NoTemporaryFileLeft ==
  (request.kind = "files" /\ pc \notin {"Validating", "Uploading"}) => tmpfiles = {}

====
